---- MODULE Spec2Model ----
(***************************************************************************)
(* Model of the report-analysis core of src/app.py: extract_patient_info,  *)
(* extract_test_results, categorize_results, create_summary and the part   *)
(* of main that chains them.                                               *)
(*                                                                         *)
(* Numbers.  Every measurement and every bound of REFERENCE_RANGES is kept *)
(* in hundredths: 13.0 is 1300, 0.39 is 39, 450000 is 45000000.  The       *)
(* inputs carry at most two decimals, so float() and the comparisons of    *)
(* the source are exact on them.                                           *)
(*                                                                         *)
(* Text.  The extracted text is a sequence of lines; a line [id, cap] is a *)
(* place of the text where the regular expression of identifier id matches *)
(* and captures the characters cap (a sequence of one-character strings).  *)
(* The empty sequence is a non-empty text in which no pattern matches.     *)
(***************************************************************************)
EXTENDS Integers, Sequences, FiniteSets, TLC

VARIABLES
    text,                 \* extracted_text, as a sequence of lines
    patient_info,         \* dict of main / argument of the two functions
    test_results,         \* dict returned by extract_test_results
    categorized_results,  \* dict returned by categorize_results
    summary,              \* dict built by create_summary
    pc,                   \* position in main / create_summary
    exception,            \* "" or the exception that ended the run
    earlier,              \* what the earlier invocations were given and gave back
    runs                  \* number of earlier invocations

vars == <<text, patient_info, test_results, categorized_results, summary, pc, exception,
          earlier, runs>>

(***************************************************************************)
(* Characters                                                              *)
(***************************************************************************)
DigitChars == {"0", "1", "2", "3", "4", "5", "6", "7", "8", "9"}

DigitVal(c) ==
    CASE c = "0" -> 0 [] c = "1" -> 1 [] c = "2" -> 2 [] c = "3" -> 3
      [] c = "4" -> 4 [] c = "5" -> 5 [] c = "6" -> 6 [] c = "7" -> 7
      [] c = "8" -> 8 [] c = "9" -> 9

DigitChar(d) ==
    CASE d = 0 -> "0" [] d = 1 -> "1" [] d = 2 -> "2" [] d = 3 -> "3"
      [] d = 4 -> "4" [] d = 5 -> "5" [] d = 6 -> "6" [] d = 7 -> "7"
      [] d = 8 -> "8" [] d = 9 -> "9"

\* str.strip(): leading and trailing blanks removed
RECURSIVE LStrip(_)
LStrip(s) == IF s # <<>> /\ Head(s) = " " THEN LStrip(Tail(s)) ELSE s

RECURSIVE RStrip(_)
RStrip(s) == IF s # <<>> /\ s[Len(s)] = " " THEN RStrip(SubSeq(s, 1, Len(s) - 1)) ELSE s

Strip(s) == RStrip(LStrip(s))

\* the Python string made of the characters of s
RECURSIVE Join(_)
Join(s) == IF s = <<>> THEN "" ELSE Head(s) \o Join(Tail(s))

\* str.lower() and str.upper(), character by character
LowerChar(c) ==
    CASE c = "M" -> "m" [] c = "A" -> "a" [] c = "L" -> "l" [] c = "E" -> "e"
      [] c = "F" -> "f" [] c = "U" -> "u" [] c = "N" -> "n" [] c = "I" -> "i"
      [] c = "T" -> "t" [] OTHER -> c

UpperChar(c) ==
    CASE c = "m" -> "M" [] c = "a" -> "A" [] c = "l" -> "L" [] c = "e" -> "E"
      [] c = "f" -> "F" [] c = "u" -> "U" [] c = "n" -> "N" [] c = "i" -> "I"
      [] c = "t" -> "T" [] OTHER -> c

Lower(s) == [i \in DOMAIN s |-> LowerChar(s[i])]
Upper(s) == [i \in DOMAIN s |-> UpperChar(s[i])]

(***************************************************************************)
(* float(): the text is a number when, once stripped, it is made of digits *)
(* with at most one point and at least one digit.                          *)
(***************************************************************************)
CountDots(s) == Cardinality({i \in DOMAIN s : s[i] = "."})
CountDigits(s) == Cardinality({i \in DOMAIN s : s[i] \in DigitChars})

FloatParses(cap) ==
    LET s == Strip(cap) IN
    /\ \A i \in DOMAIN s : s[i] \in DigitChars \cup {"."}
    /\ CountDots(s) <= 1
    /\ CountDigits(s) >= 1

RECURSIVE DigitsValue(_)
DigitsValue(s) == IF s = <<>> THEN 0 ELSE 10 * DigitsValue(SubSeq(s, 1, Len(s) - 1)) + DigitVal(s[Len(s)])

\* value, in hundredths, of a text that FloatParses
FloatValue(cap) ==
    LET s == Strip(cap)
        dots == {i \in DOMAIN s : s[i] = "."}
        p == IF dots = {} THEN Len(s) + 1 ELSE CHOOSE i \in dots : TRUE
        whole == SubSeq(s, 1, p - 1)
        frac == SubSeq(s, p + 1, Len(s))
        f1 == IF Len(frac) >= 1 THEN DigitVal(frac[1]) ELSE 0
        f2 == IF Len(frac) >= 2 THEN DigitVal(frac[2]) ELSE 0
    IN 100 * DigitsValue(whole) + 10 * f1 + f2

\* the values a dict of test results holds: a float or a str
Float(v) == [kind |-> "float", val |-> v]
Str(s) == [kind |-> "str", val |-> s]
IsNumber(value) == value.kind = "float"

(***************************************************************************)
(* REFERENCE_RANGES, in hundredths.  None is the missing female pair of    *)
(* PSA.                                                                    *)
(***************************************************************************)
None == <<>>

SexBounded(male, female, unit, low_concern, high_concern) ==
    [male |-> male, female |-> female, unit |-> unit,
     low_concern |-> low_concern, high_concern |-> high_concern]

REFERENCE_RANGES ==
    ("HAEMOGLOBIN" :> SexBounded(<<1300, 1650>>, <<1200, 1550>>, "gm%", "Anemia possible", "Polycythemia possible")) @@
    ("RBC" :> SexBounded(<<420, 540>>, <<360, 500>>, "mill/c.mm.", "Low RBC count", "Elevated RBC count")) @@
    ("PCV" :> SexBounded(<<3800, 4200>>, <<3600, 4000>>, "%", "Low hematocrit", "Elevated hematocrit")) @@
    ("MCV" :> SexBounded(<<7800, 10000>>, <<7800, 10000>>, "fl", "Microcytic anemia possible", "Macrocytic anemia possible")) @@
    ("MCH" :> SexBounded(<<2700, 3100>>, <<2700, 3100>>, "pg", "Hypochromic anemia possible", "Hyperchromic anemia possible")) @@
    ("MCHC" :> SexBounded(<<3200, 3600>>, <<3200, 3600>>, "%", "Decreased hemoglobin concentration", "Increased hemoglobin concentration")) @@
    ("WBC" :> SexBounded(<<450000, 1000000>>, <<450000, 1000000>>, "/c.mm.", "Leukopenia - impaired immune response", "Leukocytosis - infection or inflammation possible")) @@
    ("NEUTROPHILS" :> SexBounded(<<4000, 7500>>, <<4000, 7500>>, "%", "Neutropenia", "Neutrophilia - bacterial infection possible")) @@
    ("EOSINOPHILS" :> SexBounded(<<0, 600>>, <<0, 600>>, "%", "", "Eosinophilia - allergy or parasitic infection possible")) @@
    ("BASOPHILS" :> SexBounded(<<0, 100>>, <<0, 100>>, "%", "", "Basophilia - inflammatory or allergic reaction possible")) @@
    ("LYMPHOCYTES" :> SexBounded(<<2000, 4500>>, <<2000, 4500>>, "%", "Lymphopenia", "Lymphocytosis - viral infection possible")) @@
    ("MONOCYTES" :> SexBounded(<<200, 1000>>, <<200, 1000>>, "%", "", "Monocytosis - chronic inflammation possible")) @@
    ("PLATELETS" :> SexBounded(<<14000000, 45000000>>, <<14000000, 45000000>>, "/c.mm.", "Thrombocytopenia - bleeding risk", "Thrombocytosis - clotting risk")) @@
    ("CHOLESTEROL_TOTAL" :> SexBounded(<<7000, 20000>>, <<7000, 20000>>, "mg/dl", "", "Hypercholesterolemia - increased cardiovascular risk")) @@
    ("TRIGLYCERIDES" :> SexBounded(<<4000, 15000>>, <<4000, 15000>>, "mg/dl", "", "Hypertriglyceridemia - increased cardiovascular risk")) @@
    ("HDL" :> SexBounded(<<3500, 12000>>, <<3500, 12000>>, "mg/dl", "Low HDL - increased cardiovascular risk", "")) @@
    ("LDL" :> [normal |-> <<0, 10000>>, borderline |-> <<10100, 13000>>, high |-> <<13100, 17000>>,
               very_high |-> <<17100, 99900>>, unit |-> "mg/dl", low_concern |-> "",
               high_concern |-> "Elevated LDL - increased cardiovascular risk"]) @@
    ("VLDL" :> SexBounded(<<500, 3500>>, <<500, 3500>>, "mg/dl", "", "Elevated VLDL - increased cardiovascular risk")) @@
    ("CHO_HDL_RATIO" :> SexBounded(<<300, 500>>, <<300, 500>>, "", "", "Elevated ratio - increased cardiovascular risk")) @@
    ("LDL_HDL_RATIO" :> SexBounded(<<250, 350>>, <<250, 350>>, "", "", "Elevated ratio - increased cardiovascular risk")) @@
    ("CREATININE" :> SexBounded(<<70, 130>>, <<60, 110>>, "mg/dl", "", "Elevated creatinine - possible kidney dysfunction")) @@
    ("ALKALINE_PHOSPHATE" :> SexBounded(<<1500, 11200>>, <<1500, 11200>>, "IU/L", "", "Elevated ALP - possible liver or bone disorder")) @@
    ("SGPT" :> SexBounded(<<0, 4500>>, <<0, 4500>>, "IU/L", "", "Elevated SGPT - possible liver damage")) @@
    ("TSH" :> SexBounded(<<39, 611>>, <<39, 611>>, "uIU/ml", "Low TSH - possible hyperthyroidism", "Elevated TSH - possible hypothyroidism")) @@
    ("PSA" :> SexBounded(<<0, 400>>, None, "ng/ml", "", "Elevated PSA - prostate abnormality possible, including cancer")) @@
    ("VITAMIN_B12" :> [deficient |-> <<0, 20000>>, normal |-> <<20000, 90000>>, excess |-> <<90000, 999900>>,
                       unit |-> "pg/ml", low_concern |-> "B12 deficiency - neurological issues possible",
                       high_concern |-> ""]) @@
    ("VITAMIN_D3" :> [deficient |-> <<0, 2000>>, insufficient |-> <<2000, 3000>>, normal |-> <<3000, 8000>>,
                      excess |-> <<8000, 999900>>, unit |-> "ng/mL",
                      low_concern |-> "Vitamin D deficiency - bone health risk",
                      high_concern |-> "Vitamin D excess - hypercalcemia risk"]) @@
    ("HBA1C" :> [normal |-> <<0, 570>>, prediabetes |-> <<570, 650>>, diabetes |-> <<650, 2000>>,
                 unit |-> "%", low_concern |-> "",
                 high_concern |-> "Elevated HbA1c - diabetes or prediabetes"])

(***************************************************************************)
(* PATTERNS and TEST_PATTERNS.  A pattern is kept by the class of text its *)
(* group captures: "digits" for (\d+), "decimal" for ([\d\.]+), "alpha"    *)
(* for ([A-Za-z]+), "date" for the date group and "line" for ([^\n]+).     *)
(* TEST_PATTERNS_ORDER is the order of the dict, which is the order of the *)
(* loops over it and over the dicts built from it.                         *)
(***************************************************************************)
PATTERNS ==
    ("name" :> "line") @@ ("age" :> "digits") @@ ("sex" :> "alpha") @@
    ("date" :> "date") @@ ("lab_no" :> "line")

TEST_PATTERNS ==
    ("HAEMOGLOBIN" :> "decimal") @@ ("RBC" :> "decimal") @@ ("PCV" :> "decimal") @@
    ("MCV" :> "decimal") @@ ("MCH" :> "decimal") @@ ("MCHC" :> "decimal") @@
    ("WBC" :> "digits") @@ ("NEUTROPHILS" :> "digits") @@ ("EOSINOPHILS" :> "digits") @@
    ("BASOPHILS" :> "digits") @@ ("LYMPHOCYTES" :> "digits") @@ ("MONOCYTES" :> "digits") @@
    ("PLATELETS" :> "digits") @@
    ("CHOLESTEROL_TOTAL" :> "decimal") @@ ("TRIGLYCERIDES" :> "decimal") @@ ("HDL" :> "decimal") @@
    ("LDL" :> "decimal") @@ ("VLDL" :> "decimal") @@ ("CHO_HDL_RATIO" :> "decimal") @@
    ("LDL_HDL_RATIO" :> "decimal") @@
    ("CREATININE" :> "decimal") @@
    ("ALKALINE_PHOSPHATE" :> "digits") @@ ("SGPT" :> "digits") @@
    ("TSH" :> "decimal") @@
    ("PSA" :> "decimal") @@
    ("VITAMIN_B12" :> "decimal") @@ ("VITAMIN_D3" :> "decimal") @@
    ("HBA1C" :> "decimal") @@
    ("ECG_RATE" :> "digits") @@ ("ECG_RHYTHM" :> "line") @@ ("ECG_MECHANISM" :> "line") @@
    ("ECG_PR_INTERVAL" :> "decimal") @@ ("ECG_QT_INTERVAL" :> "decimal") @@ ("ECG_AXIS" :> "line") @@
    ("ECG_P_WAVE" :> "line") @@ ("ECG_T_WAVE" :> "line") @@ ("ECG_QRS_COMPLEX" :> "line") @@
    ("ECG_ST_SEGMENT" :> "line") @@ ("ECG_OTHER_FINDINGS" :> "line") @@ ("ECG_IMPRESSION" :> "line")

TEST_PATTERNS_ORDER ==
    <<"HAEMOGLOBIN", "RBC", "PCV", "MCV", "MCH", "MCHC", "WBC", "NEUTROPHILS", "EOSINOPHILS",
      "BASOPHILS", "LYMPHOCYTES", "MONOCYTES", "PLATELETS", "CHOLESTEROL_TOTAL", "TRIGLYCERIDES",
      "HDL", "LDL", "VLDL", "CHO_HDL_RATIO", "LDL_HDL_RATIO", "CREATININE", "ALKALINE_PHOSPHATE",
      "SGPT", "TSH", "PSA", "VITAMIN_B12", "VITAMIN_D3", "HBA1C", "ECG_RATE", "ECG_RHYTHM",
      "ECG_MECHANISM", "ECG_PR_INTERVAL", "ECG_QT_INTERVAL", "ECG_AXIS", "ECG_P_WAVE", "ECG_T_WAVE",
      "ECG_QRS_COMPLEX", "ECG_ST_SEGMENT", "ECG_OTHER_FINDINGS", "ECG_IMPRESSION">>

\* whether the group of a pattern of class kind can capture the characters cap
Captures(kind, cap) ==
    /\ cap # <<>>
    /\ CASE kind = "digits" -> \A i \in DOMAIN cap : cap[i] \in DigitChars
         [] kind = "decimal" -> \A i \in DOMAIN cap : cap[i] \in DigitChars \cup {"."}
         [] kind = "alpha" -> \A i \in DOMAIN cap : cap[i] \notin DigitChars \cup {".", " ", "-"}
         [] kind = "date" -> FALSE
         [] kind = "line" -> cap[1] # " "

(***************************************************************************)
(* re.search(pattern, text): the first place of the text where the pattern *)
(* of id matches; 0 stands for no match.                                   *)
(***************************************************************************)
\* Search returning the last place instead of the first
Search_Last(id, txt) ==
    LET hits == {i \in DOMAIN txt : txt[i].id = id} IN
    IF hits = {} THEN 0 ELSE CHOOSE i \in hits : \A j \in hits : i >= j

Search(id, txt) ==
    LET hits == {i \in DOMAIN txt : txt[i].id = id} IN
    IF hits = {} THEN 0 ELSE CHOOSE i \in hits : \A j \in hits : i <= j

\* extract_patient_info(text)
extract_patient_info(txt) ==
    LET found == {key \in DOMAIN PATTERNS : Search(key, txt) # 0} IN
    [key \in found |-> Strip(txt[Search(key, txt)].cap)]

\* extract_test_results(text)
extract_test_results(txt) ==
    LET found == {test_name \in DOMAIN TEST_PATTERNS : Search(test_name, txt) # 0} IN
    [test_name \in found |->
        LET group == txt[Search(test_name, txt)].cap IN
        IF FloatParses(group) THEN Float(FloatValue(group)) ELSE Str(Strip(group))]

(***************************************************************************)
(* Dicts are functions; d.get(key, default).                               *)
(***************************************************************************)
EmptyDict == [key \in {} |-> <<>>]

Get(d, key, default) == IF key \in DOMAIN d THEN d[key] ELSE default

(***************************************************************************)
(* categorize_results.  A call either returns a dict of entries or ends    *)
(* with an exception; Raise(type) stands for the second outcome.           *)
(***************************************************************************)
Entry(value, status, concern) == [value |-> value, status |-> status, concern |-> concern]

Raise(type) == [exc |-> type]

Raised(r) == "exc" \in DOMAIN r

\* CategorizeLDL with the first tier closed too early: value < 100
CategorizeLDL_StrictNormal(value, ref_range) ==
    IF ~IsNumber(value) THEN Raise("TypeError")
    ELSE IF value.val < ref_range.normal[2] THEN Entry(value, "normal", "")
    ELSE IF value.val <= ref_range.borderline[2] THEN Entry(value, "borderline", ref_range.high_concern)
    ELSE IF value.val <= ref_range.high[2] THEN Entry(value, "abnormal_high", ref_range.high_concern)
    ELSE Entry(value, "very_abnormal_high", ref_range.high_concern)

\* test == "LDL"; ordering a str against a number is a TypeError
CategorizeLDL(value, ref_range) ==
    IF ~IsNumber(value) THEN Raise("TypeError")
    ELSE IF value.val <= ref_range.normal[2] THEN Entry(value, "normal", "")
    ELSE IF value.val <= ref_range.borderline[2] THEN Entry(value, "borderline", ref_range.high_concern)
    ELSE IF value.val <= ref_range.high[2] THEN Entry(value, "abnormal_high", ref_range.high_concern)
    ELSE Entry(value, "very_abnormal_high", ref_range.high_concern)

\* CategorizeHBA1C with an inclusive first tier: value <= 5.7
CategorizeHBA1C_InclusiveNormal(value, ref_range) ==
    IF ~IsNumber(value) THEN Raise("TypeError")
    ELSE IF value.val <= ref_range.normal[2] THEN Entry(value, "normal", "")
    ELSE IF value.val < ref_range.prediabetes[2] THEN Entry(value, "borderline", "Prediabetes")
    ELSE Entry(value, "abnormal_high", "Diabetes mellitus")

\* test == "HBA1C"
CategorizeHBA1C(value, ref_range) ==
    IF ~IsNumber(value) THEN Raise("TypeError")
    ELSE IF value.val < ref_range.normal[2] THEN Entry(value, "normal", "")
    ELSE IF value.val < ref_range.prediabetes[2] THEN Entry(value, "borderline", "Prediabetes")
    ELSE Entry(value, "abnormal_high", "Diabetes mellitus")

\* CategorizeVitaminD3 with a strict normal tier: value < 80
CategorizeVitaminD3_StrictNormal(value, ref_range) ==
    IF ~IsNumber(value) THEN Raise("TypeError")
    ELSE IF value.val < ref_range.deficient[2] THEN Entry(value, "abnormal_low", "Severe Vitamin D deficiency")
    ELSE IF value.val < ref_range.insufficient[2] THEN Entry(value, "borderline_low", "Vitamin D insufficiency")
    ELSE IF value.val < ref_range.normal[2] THEN Entry(value, "normal", "")
    ELSE Entry(value, "abnormal_high", ref_range.high_concern)

\* test == "VITAMIN_D3"
CategorizeVitaminD3(value, ref_range) ==
    IF ~IsNumber(value) THEN Raise("TypeError")
    ELSE IF value.val < ref_range.deficient[2] THEN Entry(value, "abnormal_low", "Severe Vitamin D deficiency")
    ELSE IF value.val < ref_range.insufficient[2] THEN Entry(value, "borderline_low", "Vitamin D insufficiency")
    ELSE IF value.val <= ref_range.normal[2] THEN Entry(value, "normal", "")
    ELSE Entry(value, "abnormal_high", ref_range.high_concern)

\* CategorizeVitaminB12 with an inclusive deficient tier: value <= 200
CategorizeVitaminB12_InclusiveDeficient(value, ref_range) ==
    IF ~IsNumber(value) THEN Raise("TypeError")
    ELSE IF value.val <= ref_range.deficient[2] THEN Entry(value, "abnormal_low", ref_range.low_concern)
    ELSE IF value.val <= ref_range.normal[2] THEN Entry(value, "normal", "")
    ELSE Entry(value, "abnormal_high", "Elevated B12 levels")

\* test == "VITAMIN_B12"
CategorizeVitaminB12(value, ref_range) ==
    IF ~IsNumber(value) THEN Raise("TypeError")
    ELSE IF value.val < ref_range.deficient[2] THEN Entry(value, "abnormal_low", ref_range.low_concern)
    ELSE IF value.val <= ref_range.normal[2] THEN Entry(value, "normal", "")
    ELSE Entry(value, "abnormal_high", "Elevated B12 levels")

\* CategorizeRegular reading the male pair for every patient
CategorizeRegular_MaleBounds(value, ref_range, sex) ==
    IF sex \in {"male", "female"}
    THEN LET lower == ref_range["male"][1]
             upper == ref_range["male"][2]
         IN IF value.val < lower THEN Entry(value, "abnormal_low", ref_range.low_concern)
            ELSE IF value.val > upper THEN Entry(value, "abnormal_high", ref_range.high_concern)
            ELSE Entry(value, "normal", "")
    ELSE IF Len(ref_range[sex]) = 2 THEN Raise("TypeError") ELSE Raise("ValueError")

\* the branch of the regular numeric tests, entered with a number and a sex
\* that is a key of ref_range.  lower, upper = ref_range[sex] unpacks a pair
\* under "male" and "female"; None is not iterable (TypeError); under the
\* other keys of a sex-bounded rule the value is a str, whose unpacking is a
\* ValueError unless it has two characters, which no number is ordered
\* against (TypeError).
CategorizeRegular(value, ref_range, sex) ==
    IF sex \in {"male", "female"}
    THEN IF ref_range[sex] = None THEN Raise("TypeError")
         ELSE LET lower == ref_range[sex][1]
                  upper == ref_range[sex][2]
              IN IF value.val < lower THEN Entry(value, "abnormal_low", ref_range.low_concern)
                 ELSE IF value.val > upper THEN Entry(value, "abnormal_high", ref_range.high_concern)
                 ELSE Entry(value, "normal", "")
    ELSE IF Len(ref_range[sex]) = 2 THEN Raise("TypeError") ELSE Raise("ValueError")

\* one turn of the loop of categorize_results
CategorizeTest(test, value, sex) ==
    IF test \in DOMAIN REFERENCE_RANGES
    THEN LET ref_range == REFERENCE_RANGES[test] IN
         CASE test = "LDL" -> CategorizeLDL(value, ref_range)
           [] test = "HBA1C" -> CategorizeHBA1C(value, ref_range)
           [] test = "VITAMIN_D3" -> CategorizeVitaminD3(value, ref_range)
           [] test = "VITAMIN_B12" -> CategorizeVitaminB12(value, ref_range)
           [] OTHER -> IF IsNumber(value) /\ sex \in DOMAIN ref_range
                       THEN CategorizeRegular(value, ref_range, sex)
                       ELSE Entry(value, "not_numeric", "")
    ELSE Entry(value, "no_reference", "")

\* ClassificationSex with the other default
ClassificationSex_DefaultFemale(info) == Join(Lower(Get(info, "sex", <<"F", "E", "M", "A", "L", "E">>)))

\* sex = patient_info.get("sex", "MALE").lower()
ClassificationSex(info) == Join(Lower(Get(info, "sex", <<"M", "A", "L", "E">>)))

\* position of a test in the iteration order of the dict of results
OrderOf(test) == CHOOSE i \in DOMAIN TEST_PATTERNS_ORDER : TEST_PATTERNS_ORDER[i] = test

categorize_results(results, info) ==
    LET sex == ClassificationSex(info)
        entries == [test \in DOMAIN results |-> CategorizeTest(test, results[test], sex)]
        raising == {test \in DOMAIN results : Raised(entries[test])}
    IN IF raising = {} THEN entries
       ELSE entries[CHOOSE test \in raising : \A other \in raising : OrderOf(test) <= OrderOf(other)]

(***************************************************************************)
(* create_summary.  'abnormal' in status: the statuses are words joined by *)
(* underscores, and a word of the closed vocabulary occurs in a status     *)
(* exactly when it is one of its words.                                    *)
(***************************************************************************)
StatusWords ==
    ("normal" :> <<"normal">>) @@
    ("abnormal_low" :> <<"abnormal", "low">>) @@
    ("abnormal_high" :> <<"abnormal", "high">>) @@
    ("very_abnormal_high" :> <<"very", "abnormal", "high">>) @@
    ("borderline" :> <<"borderline">>) @@
    ("borderline_low" :> <<"borderline", "low">>) @@
    ("not_numeric" :> <<"not", "numeric">>) @@
    ("no_reference" :> <<"no", "reference">>)

In(word, status) == \E i \in DOMAIN StatusWords[status] : StatusWords[status][i] = word

\* AbnormalResults without the borderline statuses
AbnormalResults_AbnormalOnly(categorized) ==
    LET keep == {k \in DOMAIN categorized : In("abnormal", categorized[k].status)}
    IN [k \in keep |-> categorized[k]]

\* the dict comprehension of abnormal_results
AbnormalResults(categorized) ==
    LET keep == {k \in DOMAIN categorized :
                    In("abnormal", categorized[k].status) \/ In("borderline", categorized[k].status)}
    IN [k \in keep |-> categorized[k]]

NewSummary(categorized, info) ==
    [patient_info |-> info,
     abnormal_count |-> Cardinality(DOMAIN AbnormalResults(categorized)),
     abnormal_tests |-> AbnormalResults(categorized),
     risk_factors |-> <<>>,
     recommendations |-> <<>>]

\* AddRisk inserting at the front of the list
AddRisk_Prepend(sm, risk) == [sm EXCEPT !.risk_factors = <<risk>> \o @]

\* summary["risk_factors"].append(..) and summary["recommendations"].append(..)
AddRisk(sm, risk) == [sm EXCEPT !.risk_factors = Append(@, risk)]
AddRecommendation(sm, rec) == [sm EXCEPT !.recommendations = Append(@, rec)]

\* test in categorized_results and categorized_results[test]["status"] == status
Has(categorized, test, status) == test \in DOMAIN categorized /\ categorized[test].status = status

\* AnemiaBlock with a recommendation in the normocytic branch too
AnemiaBlock_NormocyticRecommendation(sm, categorized) ==
    IF Has(categorized, "HAEMOGLOBIN", "abnormal_low") /\ "MCV" \in DOMAIN categorized
    THEN IF categorized["MCV"].status = "abnormal_low"
         THEN AddRecommendation(AddRisk(sm, "Microcytic anemia possible - consider iron deficiency"),
                                "Further investigation for iron deficiency anemia recommended")
         ELSE IF categorized["MCV"].status = "abnormal_high"
         THEN AddRecommendation(AddRisk(sm, "Macrocytic anemia possible - consider B12/folate deficiency"),
                                "Further investigation for vitamin B12 or folate deficiency recommended")
         ELSE AddRecommendation(AddRisk(sm, "Normocytic anemia possible"),
                                "Further investigation of anemia recommended")
    ELSE sm

AnemiaBlock(sm, categorized) ==
    IF Has(categorized, "HAEMOGLOBIN", "abnormal_low") /\ "MCV" \in DOMAIN categorized
    THEN IF categorized["MCV"].status = "abnormal_low"
         THEN AddRecommendation(AddRisk(sm, "Microcytic anemia possible - consider iron deficiency"),
                                "Further investigation for iron deficiency anemia recommended")
         ELSE IF categorized["MCV"].status = "abnormal_high"
         THEN AddRecommendation(AddRisk(sm, "Macrocytic anemia possible - consider B12/folate deficiency"),
                                "Further investigation for vitamin B12 or folate deficiency recommended")
         ELSE AddRisk(sm, "Normocytic anemia possible")
    ELSE sm

LeukocyteBlock(sm, categorized) ==
    IF Has(categorized, "WBC", "abnormal_high")
    THEN AddRecommendation(AddRisk(sm, "Elevated white blood cell count - possible infection or inflammation"),
                           "Monitor for signs of infection or inflammatory conditions")
    ELSE sm

\* has_lipid_concerns set by a borderline LDL too
has_lipid_concerns_BorderlineLDL(categorized) ==
    \/ Has(categorized, "CHOLESTEROL_TOTAL", "abnormal_high")
    \/ Has(categorized, "LDL", "borderline")
    \/ Has(categorized, "LDL", "abnormal_high") \/ Has(categorized, "LDL", "very_abnormal_high")
    \/ Has(categorized, "HDL", "abnormal_low")
    \/ Has(categorized, "TRIGLYCERIDES", "abnormal_high")

has_lipid_concerns(categorized) ==
    \/ Has(categorized, "CHOLESTEROL_TOTAL", "abnormal_high")
    \/ Has(categorized, "LDL", "abnormal_high") \/ Has(categorized, "LDL", "very_abnormal_high")
    \/ Has(categorized, "HDL", "abnormal_low")
    \/ Has(categorized, "TRIGLYCERIDES", "abnormal_high")

DyslipidemiaBlock(sm, categorized) ==
    IF has_lipid_concerns(categorized)
    THEN LET fired == AddRecommendation(AddRisk(sm, "Dyslipidemia - increased cardiovascular risk"),
                          "Lifestyle modifications recommended; consider dietary changes and exercise")
         IN IF Has(categorized, "LDL", "very_abnormal_high")
            THEN AddRecommendation(fired, "Consider consultation with cardiologist for lipid management")
            ELSE fired
    ELSE sm

\* DiabetesBlock leaving out the lifestyle recommendation when the list already holds it
DiabetesBlock_Dedup(sm, categorized) ==
    IF Has(categorized, "HBA1C", "borderline")
    THEN LET lifestyle == "Lifestyle modifications recommended; consider dietary changes and exercise"
             risk == AddRisk(sm, "Prediabetes")
             first == IF \E i \in DOMAIN sm.recommendations : sm.recommendations[i] = lifestyle
                      THEN risk ELSE AddRecommendation(risk, lifestyle)
         IN AddRecommendation(first, "Follow-up HbA1c test in 3-6 months")
    ELSE IF Has(categorized, "HBA1C", "abnormal_high")
    THEN AddRecommendation(AddRecommendation(AddRisk(sm, "Diabetes mellitus"),
             "Consultation with endocrinologist recommended"),
             "Regular blood glucose monitoring")
    ELSE sm

DiabetesBlock(sm, categorized) ==
    IF Has(categorized, "HBA1C", "borderline")
    THEN AddRecommendation(AddRecommendation(AddRisk(sm, "Prediabetes"),
             "Lifestyle modifications recommended; consider dietary changes and exercise"),
             "Follow-up HbA1c test in 3-6 months")
    ELSE IF Has(categorized, "HBA1C", "abnormal_high")
    THEN AddRecommendation(AddRecommendation(AddRisk(sm, "Diabetes mellitus"),
             "Consultation with endocrinologist recommended"),
             "Regular blood glucose monitoring")
    ELSE sm

\* patient_info.get("sex", "").upper() == "MALE"
SummarySexIsMale(info) == Join(Upper(Get(info, "sex", <<>>))) = "MALE"

ProstateBlock(sm, categorized, info) ==
    IF SummarySexIsMale(info) /\ Has(categorized, "PSA", "abnormal_high")
    THEN AddRecommendation(AddRisk(sm, "Elevated PSA - prostate abnormality possible"),
                           "Urologist consultation recommended")
    ELSE sm

VitaminDBlock(sm, categorized) ==
    IF Has(categorized, "VITAMIN_D3", "abnormal_low")
    THEN AddRecommendation(AddRisk(sm, "Severe Vitamin D deficiency"), "Vitamin D supplementation recommended")
    ELSE IF Has(categorized, "VITAMIN_D3", "borderline_low")
    THEN AddRecommendation(AddRisk(sm, "Vitamin D insufficiency"), "Consider Vitamin D supplementation")
    ELSE sm

VitaminB12Block(sm, categorized) ==
    IF Has(categorized, "VITAMIN_B12", "abnormal_low")
    THEN AddRecommendation(AddRisk(sm, "Vitamin B12 deficiency"), "Vitamin B12 supplementation recommended")
    ELSE sm

\* KidneyBlock firing on every creatinine status but normal
KidneyBlock_NotNormal(sm, categorized) ==
    IF "CREATININE" \in DOMAIN categorized /\ categorized["CREATININE"].status # "normal"
    THEN AddRecommendation(AddRisk(sm, "Elevated creatinine - possible kidney dysfunction"),
                           "Follow-up kidney function tests recommended")
    ELSE sm

KidneyBlock(sm, categorized) ==
    IF Has(categorized, "CREATININE", "abnormal_high")
    THEN AddRecommendation(AddRisk(sm, "Elevated creatinine - possible kidney dysfunction"),
                           "Follow-up kidney function tests recommended")
    ELSE sm

liver_concerns(categorized) ==
    Has(categorized, "SGPT", "abnormal_high") \/ Has(categorized, "ALKALINE_PHOSPHATE", "abnormal_high")

LiverBlock(sm, categorized) ==
    IF liver_concerns(categorized)
    THEN AddRecommendation(AddRisk(sm, "Possible liver function abnormalities"),
                           "Follow-up liver function tests recommended")
    ELSE sm

ThyroidBlock(sm, categorized) ==
    IF Has(categorized, "TSH", "abnormal_high")
    THEN AddRecommendation(AddRisk(sm, "Elevated TSH - possible hypothyroidism"), "Consider thyroid profile (T3, T4)")
    ELSE IF Has(categorized, "TSH", "abnormal_low")
    THEN AddRecommendation(AddRisk(sm, "Low TSH - possible hyperthyroidism"), "Consider thyroid profile (T3, T4)")
    ELSE sm

\* SentinelBlock looking at the recommendations instead of the risk factors
SentinelBlock_OnRecommendations(sm) ==
    IF sm.recommendations = <<>>
    THEN AddRecommendation(AddRisk(sm, "No significant risk factors identified"),
                           "Routine follow-up as per age and gender appropriate guidelines")
    ELSE sm

SentinelBlock(sm) ==
    IF sm.risk_factors = <<>>
    THEN AddRecommendation(AddRisk(sm, "No significant risk factors identified"),
                           "Routine follow-up as per age and gender appropriate guidelines")
    ELSE sm

(***************************************************************************)
(* Inputs.  The measurements of a report are printed with at most two      *)
(* decimals; the texts below print, for every test with a reference rule,  *)
(* the values at and next to each of its bounds.                           *)
(***************************************************************************)
MaxLines == 2

\* str(n) of a natural number
RECURSIVE Digits(_)
Digits(n) == IF n < 10 THEN <<DigitChar(n)>> ELSE Digits(n \div 10) \o <<DigitChar(n % 10)>>

\* a measurement of v hundredths as a report prints it
Printed(v) ==
    IF v % 100 = 0 THEN Digits(v \div 100)
    ELSE Digits(v \div 100) \o <<".", DigitChar((v % 100) \div 10), DigitChar(v % 10)>>

Line(id, cap) == [id |-> id, cap |-> cap]

\* the (lo, hi) pairs of a reference rule
BoundPairs(test) ==
    LET ref_range == REFERENCE_RANGES[test]
        keys == DOMAIN ref_range \ {"unit", "low_concern", "high_concern"}
    IN {ref_range[k] : k \in keys} \ {None}

\* the smallest difference a capture of the test's pattern can show
Resolution(test) == IF TEST_PATTERNS[test] = "digits" THEN 100 ELSE 1

BoundaryValues(test) ==
    LET d == Resolution(test)
        near == UNION {{p[1] - d, p[1], p[1] + d, p[2] - d, p[2], p[2] + d} : p \in BoundPairs(test)}
    IN {v \in near : v >= 0}

Malformed == <<"1", ".", "2", ".", "3">>
Finding == <<"S", "i", "n", "u", "s", " ">>

TestLines ==
    LET printed == UNION {{Line(test, Printed(v)) : v \in BoundaryValues(test)} : test \in DOMAIN REFERENCE_RANGES}
        other == {Line(test, cap) : test \in DOMAIN TEST_PATTERNS,
                                    cap \in {Malformed, Finding, <<"7", "2">>, <<"0", ".", "1", "6">>, <<"5", ".">>}}
    IN {l \in printed \cup other : Captures(TEST_PATTERNS[l.id], l.cap)}

SexCaptures == {<<"M", "a", "l", "e">>, <<"F", "e", "m", "a", "l", "e">>, <<"M">>, <<"u", "n", "i", "t">>}

PatientLines == {Line("sex", cap) : cap \in SexCaptures} \cup {Line("age", <<"4", "5">>)}

\* the lines the longer texts are made of
ReportLines ==
    PatientLines \cup
    {Line("HAEMOGLOBIN", <<"1", "1", ".", "0">>), Line("HAEMOGLOBIN", <<"1", "2", ".", "5">>),
     Line("MCV", <<"7", "0">>), Line("MCV", <<"8", "5">>), Line("MCV", <<"1", "0", "5">>),
     Line("WBC", <<"1", "2", "0", "0", "0">>),
     Line("LDL", <<"1", "2", "0">>), Line("LDL", <<"1", "8", "0">>),
     Line("HDL", <<"3", "0">>),
     Line("HBA1C", <<"6", ".", "0">>), Line("HBA1C", <<"7", ".", "0">>),
     Line("PSA", <<"5", ".", "0">>),
     Line("VITAMIN_D3", <<"2", "5">>),
     Line("CREATININE", <<"1", ".", "2">>),
     Line("SGPT", <<"5", "0">>),
     Line("TSH", <<"0", ".", "2">>),
     Line("ECG_RHYTHM", Finding)}

\* reports of several tests
Panels ==
    {<<Line("HAEMOGLOBIN", <<"1", "1", ".", "0">>), Line("MCV", <<"8", "5">>),
       Line("WBC", <<"1", "2", "0", "0", "0">>)>>,
     <<Line("HAEMOGLOBIN", <<"1", "1", ".", "0">>), Line("MCV", <<"8", "5">>),
       Line("LDL", <<"1", "2", "0">>)>>,
     <<Line("TSH", <<"0", ".", "2">>), Line("SGPT", <<"5", "0">>), Line("HBA1C", <<"6", ".", "0">>),
       Line("HDL", <<"3", "0">>), Line("MCV", <<"7", "0">>),
       Line("HAEMOGLOBIN", <<"1", "1", ".", "0">>)>>}

Texts ==
    {<<>>} \cup {<<l>> : l \in TestLines \cup ReportLines} \cup Panels
           \cup UNION {[1..n -> ReportLines] : n \in 2..MaxLines}

\* the widgets of the sidebar: the selectbox of the sex and the number input of the age
SexOptions == {<<"M", "a", "l", "e">>, <<"F", "e", "m", "a", "l", "e">>}
AgeInputs == {0, 40}

(***************************************************************************)
(* main, from the extracted text to the summary                            *)
(***************************************************************************)
ExtractPatientInfo ==
    /\ pc = "main"
    /\ patient_info' = extract_patient_info(text)
    /\ pc' = "override"
    /\ UNCHANGED <<text, test_results, categorized_results, summary, exception, earlier, runs>>

\* "Use user input if available"
Override ==
    /\ pc = "override"
    /\ \E patient_sex \in SexOptions, patient_age \in AgeInputs :
          LET with_sex == IF "sex" \notin DOMAIN patient_info
                          THEN ("sex" :> patient_sex) @@ patient_info ELSE patient_info
          IN patient_info' = IF "age" \notin DOMAIN with_sex /\ patient_age # 0
                             THEN ("age" :> Digits(patient_age)) @@ with_sex ELSE with_sex
    /\ pc' = "extract"
    /\ UNCHANGED <<text, test_results, categorized_results, summary, exception, earlier, runs>>

\* test_results = extract_test_results(extracted_text); if test_results: .. else: st.error(..)
ExtractTestResults ==
    /\ pc = "extract"
    /\ test_results' = extract_test_results(text)
    /\ pc' = IF DOMAIN test_results' # {} THEN "categorize" ELSE "no_results"
    /\ UNCHANGED <<text, patient_info, categorized_results, summary, exception, earlier, runs>>

Categorize ==
    /\ pc = "categorize"
    /\ LET r == categorize_results(test_results, patient_info) IN
          IF Raised(r)
          THEN /\ exception' = r.exc
               /\ pc' = "raised"
               /\ UNCHANGED categorized_results
          ELSE /\ categorized_results' = r
               /\ pc' = "summary"
               /\ UNCHANGED exception
    /\ UNCHANGED <<text, patient_info, test_results, summary, earlier, runs>>

\* one block of create_summary
Step(from, to, sm) ==
    /\ pc = from
    /\ summary' = sm
    /\ pc' = to
    /\ UNCHANGED <<text, patient_info, test_results, categorized_results, exception, earlier, runs>>

\* SummaryBegin with the two lists of the summary kept from one call to the next
SummaryBegin_KeepLists ==
    LET new == NewSummary(categorized_results, patient_info) IN
    Step("summary", "anemia",
         IF DOMAIN summary = {} THEN new
         ELSE [new EXCEPT !.risk_factors = summary.risk_factors,
                          !.recommendations = summary.recommendations])

SummaryBegin == Step("summary", "anemia", NewSummary(categorized_results, patient_info))
Anemia == Step("anemia", "leukocyte", AnemiaBlock(summary, categorized_results))
Leukocyte == Step("leukocyte", "dyslipidemia", LeukocyteBlock(summary, categorized_results))
Dyslipidemia == Step("dyslipidemia", "diabetes", DyslipidemiaBlock(summary, categorized_results))
\* Diabetes with two independent tests, so that an abnormal_high HBA1C gets both risk factors
Diabetes_BothRisks ==
    Step("diabetes", "prostate",
         IF Has(categorized_results, "HBA1C", "abnormal_high")
         THEN DiabetesBlock(AddRisk(summary, "Prediabetes"), categorized_results)
         ELSE DiabetesBlock(summary, categorized_results))

Diabetes == Step("diabetes", "prostate", DiabetesBlock(summary, categorized_results))
Prostate == Step("prostate", "vitamin_d", ProstateBlock(summary, categorized_results, patient_info))
VitaminD == Step("vitamin_d", "vitamin_b12", VitaminDBlock(summary, categorized_results))
VitaminB12 == Step("vitamin_b12", "kidney", VitaminB12Block(summary, categorized_results))
Kidney == Step("kidney", "liver", KidneyBlock(summary, categorized_results))
Liver == Step("liver", "thyroid", LiverBlock(summary, categorized_results))
Thyroid == Step("thyroid", "sentinel", ThyroidBlock(summary, categorized_results))
Sentinel == Step("sentinel", "done", SentinelBlock(summary))

CreateSummary ==
    \/ SummaryBegin \/ Anemia \/ Leukocyte \/ Dyslipidemia \/ Diabetes \/ Prostate
    \/ VitaminD \/ VitaminB12 \/ Kidney \/ Liver \/ Thyroid \/ Sentinel

Init ==
    /\ text \in Texts
    /\ patient_info = EmptyDict
    /\ test_results = EmptyDict
    /\ categorized_results = EmptyDict
    /\ summary = EmptyDict
    /\ pc = "main"
    /\ exception = ""
    /\ earlier = {}
    /\ runs = 0

Next == ExtractPatientInfo \/ Override \/ ExtractTestResults \/ Categorize \/ CreateSummary

Spec == Init /\ [][Next]_vars

(***************************************************************************)
(* The two functions called on their own: categorize_results and then      *)
(* create_summary on any dict of results the extraction can build and any  *)
(* patient_info, with or without a sex.                                    *)
(***************************************************************************)
PatientInfos == {EmptyDict} \cup {("sex" :> cap) : cap \in SexCaptures}

InitFn ==
    /\ text = <<>>
    /\ patient_info \in PatientInfos
    /\ test_results \in {extract_test_results(t) : t \in Texts}
    /\ categorized_results = EmptyDict
    /\ summary = EmptyDict
    /\ pc = "categorize"
    /\ exception = ""
    /\ earlier = {}
    /\ runs = 0

NextFn == Categorize \/ CreateSummary

SpecFn == InitFn /\ [][NextFn]_vars

(***************************************************************************)
(* main invoked again and again: every upload and every change of a        *)
(* widget runs main from its first line, in the same process.  What the    *)
(* variables of one invocation held is of no use to the next, which has to *)
(* assign each of them before it reads it.                                 *)
(***************************************************************************)
MaxRuns == 2

RerunTexts ==
    {<<Line("HBA1C", <<"7", ".", "0">>)>>,
     <<Line("PSA", <<"5", ".", "0">>)>>,
     <<Line("HAEMOGLOBIN", <<"1", "1", ".", "0">>), Line("MCV", <<"7", "0">>)>>,
     <<Line("sex", <<"F", "e", "m", "a", "l", "e">>), Line("PSA", <<"5", ".", "0">>)>>,
     <<Line("LDL", Malformed)>>,
     <<Line("age", <<"4", "5">>)>>}

Ended == pc \in {"done", "raised", "no_results"}

\* the four entries of the summary that do not repeat the patient_info
SummaryFields(sm) ==
    [abnormal_count |-> sm.abnormal_count, abnormal_tests |-> sm.abnormal_tests,
     risk_factors |-> sm.risk_factors, recommendations |-> sm.recommendations]

\* what an invocation was given and what it gave back
Outcome ==
    [text |-> text, sex |-> Get(patient_info, "sex", None), end |-> pc,
     categorized |-> IF pc = "done" THEN categorized_results ELSE EmptyDict,
     summary |-> IF pc = "done" THEN SummaryFields(summary) ELSE EmptyDict,
     exception |-> IF pc = "raised" THEN exception ELSE ""]

Rerun ==
    /\ Ended
    /\ runs < MaxRuns
    /\ runs' = runs + 1
    /\ earlier' = earlier \cup {Outcome}
    /\ text' \in RerunTexts
    /\ pc' = "main"
    /\ UNCHANGED <<patient_info, test_results, categorized_results, summary, exception>>

InitRerun ==
    /\ text \in RerunTexts
    /\ patient_info = EmptyDict
    /\ test_results = EmptyDict
    /\ categorized_results = EmptyDict
    /\ summary = EmptyDict
    /\ pc = "main"
    /\ exception = ""
    /\ earlier = {}
    /\ runs = 0

NextRerun == Next \/ Rerun

SpecRerun == InitRerun /\ [][NextRerun]_vars

(***************************************************************************)
(* Properties                                                              *)
(***************************************************************************)
\* categorize_results has returned its dict
Classified == pc \notin {"main", "override", "extract", "categorize", "no_results", "raised"}

\* create_summary has built the summary dict (lines 365-374)
Summarized == Classified /\ pc # "summary"

Statuses == {"normal", "abnormal_low", "abnormal_high", "very_abnormal_high", "borderline",
             "borderline_low", "not_numeric", "no_reference"}

\* C1: categorize_results never raises, whatever the observations and the
\* patient_info are, and its result holds exactly one entry, with a status and
\* the unchanged value, for each observation and no other entry.
C1_ClassificationNeverRaises ==
    /\ pc # "raised"
    /\ Classified =>
          /\ DOMAIN categorized_results = DOMAIN test_results
          /\ \A test \in DOMAIN test_results :
                /\ categorized_results[test].value = test_results[test]
                /\ categorized_results[test].status \in Statuses

\* C2: with a female patient and a numeric PSA the call completes and the PSA
\* entry is no_reference or not_numeric.
C2_FemalePSAFallsThrough ==
    (/\ pc \notin {"main", "override", "extract", "categorize", "no_results"}
     /\ ClassificationSex(patient_info) = "female"
     /\ "PSA" \in DOMAIN test_results
     /\ IsNumber(test_results["PSA"]))
    => /\ pc # "raised"
       /\ categorized_results["PSA"].status \in {"no_reference", "not_numeric"}

\* C3: for every test identifier, a captured text that does not parse as a
\* number is kept as the trimmed text and is classified not_numeric with an
\* empty concern.
C3_UnparsedTextIsNotNumeric ==
    \A test \in DOMAIN TEST_PATTERNS :
        (Search(test, text) # 0 /\ ~FloatParses(text[Search(test, text)].cap)) =>
            /\ pc \notin {"main", "override", "extract"} =>
                  test_results[test] = Str(Strip(text[Search(test, text)].cap))
            /\ pc # "raised"
            /\ Classified =>
                  /\ categorized_results[test].status = "not_numeric"
                  /\ categorized_results[test].concern = ""

\* C4: a numeric LDL is normal up to 100, borderline above 100 and up to 130,
\* abnormal_high above 130 and up to 170, very_abnormal_high above 170,
\* whatever the sex; the concern is empty for normal and the high_concern of
\* LDL for the other tiers.
C4_LDLTiers ==
    (Classified /\ "LDL" \in DOMAIN categorized_results) =>
        LET e == categorized_results["LDL"]
            v == e.value.val
            high_concern == "Elevated LDL - increased cardiovascular risk"
        IN /\ IsNumber(e.value)
           /\ v <= 10000 => (e.status = "normal" /\ e.concern = "")
           /\ (10000 < v /\ v <= 13000) => (e.status = "borderline" /\ e.concern = high_concern)
           /\ (13000 < v /\ v <= 17000) => (e.status = "abnormal_high" /\ e.concern = high_concern)
           /\ v > 17000 => (e.status = "very_abnormal_high" /\ e.concern = high_concern)

C4_Witness ==
    /\ Classified
    /\ ClassificationSex(patient_info) = "female"
    /\ "LDL" \in DOMAIN categorized_results
    /\ categorized_results["LDL"].value = Float(10100)
    /\ categorized_results["LDL"].status = "borderline"

\* C5: a numeric HBA1C is normal below 5.7, borderline (Prediabetes) from 5.7
\* and below 6.5, abnormal_high (Diabetes mellitus) from 6.5, whatever the sex.
C5_HBA1CTiers ==
    (Classified /\ "HBA1C" \in DOMAIN categorized_results) =>
        LET e == categorized_results["HBA1C"]
            v == e.value.val
        IN /\ IsNumber(e.value)
           /\ v < 570 => (e.status = "normal" /\ e.concern = "")
           /\ (570 <= v /\ v < 650) => (e.status = "borderline" /\ e.concern = "Prediabetes")
           /\ v >= 650 => (e.status = "abnormal_high" /\ e.concern = "Diabetes mellitus")

C5_Witness ==
    /\ Classified
    /\ "HBA1C" \in DOMAIN categorized_results
    /\ categorized_results["HBA1C"].value = Float(570)
    /\ categorized_results["HBA1C"].status = "borderline"
    /\ categorized_results["HBA1C"].concern = "Prediabetes"

\* C6: a numeric VITAMIN_D3 is abnormal_low below 20, borderline_low from 20
\* and below 30, normal from 30 up to 80, abnormal_high above 80, whatever the
\* sex.
C6_VitaminD3Tiers ==
    (Classified /\ "VITAMIN_D3" \in DOMAIN categorized_results) =>
        LET e == categorized_results["VITAMIN_D3"]
            v == e.value.val
        IN /\ IsNumber(e.value)
           /\ v < 2000 => e.status = "abnormal_low"
           /\ (2000 <= v /\ v < 3000) => e.status = "borderline_low"
           /\ (3000 <= v /\ v <= 8000) => e.status = "normal"
           /\ v > 8000 => e.status = "abnormal_high"

C6_Witness ==
    /\ Classified
    /\ "VITAMIN_D3" \in DOMAIN categorized_results
    /\ categorized_results["VITAMIN_D3"].value = Float(8000)
    /\ categorized_results["VITAMIN_D3"].status = "normal"

\* C7: a numeric VITAMIN_B12 is abnormal_low below 200, normal from 200 up to
\* 900, abnormal_high with the concern 'Elevated B12 levels' above 900,
\* whatever the sex.
C7_VitaminB12Tiers ==
    (Classified /\ "VITAMIN_B12" \in DOMAIN categorized_results) =>
        LET e == categorized_results["VITAMIN_B12"]
            v == e.value.val
        IN /\ IsNumber(e.value)
           /\ v < 20000 => e.status = "abnormal_low"
           /\ (20000 <= v /\ v <= 90000) => e.status = "normal"
           /\ v > 90000 => (e.status = "abnormal_high" /\ e.concern = "Elevated B12 levels")

C7_Witness ==
    /\ Classified
    /\ "VITAMIN_B12" \in DOMAIN categorized_results
    /\ categorized_results["VITAMIN_B12"].value = Float(20000)
    /\ categorized_results["VITAMIN_B12"].status = "normal"

\* the tests classified by the four tier tables
Tiered == {"LDL", "HBA1C", "VITAMIN_D3", "VITAMIN_B12"}

\* C8: a numeric value of a sex-bounded test that has a pair for the patient's
\* sex (male or female) is abnormal_low with the low_concern below lo,
\* abnormal_high with the high_concern above hi, and normal with no concern
\* from lo to hi, both included; the pair is the one of the patient's sex.
C8_SexBoundedBounds ==
    Classified =>
        \A test \in DOMAIN categorized_results \cap (DOMAIN REFERENCE_RANGES \ Tiered) :
            LET e == categorized_results[test]
                sex == ClassificationSex(patient_info)
                rule == REFERENCE_RANGES[test]
            IN (sex \in {"male", "female"} /\ IsNumber(e.value) /\ rule[sex] # None) =>
                  LET lo == rule[sex][1]
                      hi == rule[sex][2]
                  IN /\ e.value.val < lo => (e.status = "abnormal_low" /\ e.concern = rule.low_concern)
                     /\ e.value.val > hi => (e.status = "abnormal_high" /\ e.concern = rule.high_concern)
                     /\ (lo <= e.value.val /\ e.value.val <= hi) => (e.status = "normal" /\ e.concern = "")

\* a female HAEMOGLOBIN of 12.5 is normal (12.0 to 15.5), though below the male pair
C8_Witness ==
    /\ Classified
    /\ ClassificationSex(patient_info) = "female"
    /\ "HAEMOGLOBIN" \in DOMAIN categorized_results
    /\ categorized_results["HAEMOGLOBIN"].value = Float(1250)
    /\ categorized_results["HAEMOGLOBIN"].status = "normal"

\* C9: without a sex in patient_info, categorize_results ends as it does with
\* the sex 'male' on the same observations; HAEMOGLOBIN = 12.5 is then
\* abnormal_low.
C9_NoSexIsMale ==
    (pc \notin {"main", "override", "extract", "categorize", "no_results"}
     /\ "sex" \notin DOMAIN patient_info) =>
        LET male == categorize_results(test_results, ("sex" :> <<"m", "a", "l", "e">>)) IN
        /\ IF Raised(male)
           THEN pc = "raised" /\ exception = male.exc
           ELSE pc # "raised" /\ categorized_results = male
        /\ (Classified /\ "HAEMOGLOBIN" \in DOMAIN test_results
               /\ test_results["HAEMOGLOBIN"] = Float(1250)) =>
              categorized_results["HAEMOGLOBIN"].status = "abnormal_low"

C9_Witness ==
    /\ Classified
    /\ "sex" \notin DOMAIN patient_info
    /\ "HAEMOGLOBIN" \in DOMAIN categorized_results
    /\ categorized_results["HAEMOGLOBIN"].value = Float(1250)
    /\ categorized_results["HAEMOGLOBIN"].status = "abnormal_low"

\* C10: abnormal_tests is exactly the entries whose status is abnormal_low,
\* abnormal_high, very_abnormal_high, borderline or borderline_low, and
\* abnormal_count is their number; normal, not_numeric and no_reference
\* entries are never counted.
C10_AbnormalTests ==
    Summarized =>
        LET counted == {k \in DOMAIN categorized_results :
                           categorized_results[k].status \in
                               {"abnormal_low", "abnormal_high", "very_abnormal_high",
                                "borderline", "borderline_low"}}
        IN /\ DOMAIN summary.abnormal_tests = counted
           /\ \A k \in counted : summary.abnormal_tests[k] = categorized_results[k]
           /\ summary.abnormal_count = Cardinality(counted)

\* a borderline entry is counted and a not_numeric one is not
C10_Witness ==
    /\ Summarized
    /\ summary.abnormal_count = 1
    /\ \E k \in DOMAIN categorized_results : categorized_results[k].status = "borderline"
    /\ \E k \in DOMAIN categorized_results : categorized_results[k].status = "not_numeric"

IsPrefix(s, t) == Len(s) <= Len(t) /\ SubSeq(t, 1, Len(s)) = s

\* the rule block, 1 (anemia) to 10 (thyroid), that appends a risk factor; 11
\* is the closing block of the sentinel pair
RiskBlock(risk) ==
    CASE risk \in {"Microcytic anemia possible - consider iron deficiency",
                   "Macrocytic anemia possible - consider B12/folate deficiency",
                   "Normocytic anemia possible"} -> 1
      [] risk = "Elevated white blood cell count - possible infection or inflammation" -> 2
      [] risk = "Dyslipidemia - increased cardiovascular risk" -> 3
      [] risk \in {"Prediabetes", "Diabetes mellitus"} -> 4
      [] risk = "Elevated PSA - prostate abnormality possible" -> 5
      [] risk \in {"Severe Vitamin D deficiency", "Vitamin D insufficiency"} -> 6
      [] risk = "Vitamin B12 deficiency" -> 7
      [] risk = "Elevated creatinine - possible kidney dysfunction" -> 8
      [] risk = "Possible liver function abnormalities" -> 9
      [] risk \in {"Elevated TSH - possible hypothyroidism", "Low TSH - possible hyperthyroidism"} -> 10
      [] risk = "No significant risk factors identified" -> 11

\* the blocks that append a recommendation; the lifestyle one has two
RecommendationBlocks(rec) ==
    CASE rec \in {"Further investigation for iron deficiency anemia recommended",
                  "Further investigation for vitamin B12 or folate deficiency recommended"} -> {1}
      [] rec = "Monitor for signs of infection or inflammatory conditions" -> {2}
      [] rec = "Lifestyle modifications recommended; consider dietary changes and exercise" -> {3, 4}
      [] rec = "Consider consultation with cardiologist for lipid management" -> {3}
      [] rec \in {"Follow-up HbA1c test in 3-6 months", "Consultation with endocrinologist recommended",
                  "Regular blood glucose monitoring"} -> {4}
      [] rec = "Urologist consultation recommended" -> {5}
      [] rec \in {"Vitamin D supplementation recommended", "Consider Vitamin D supplementation"} -> {6}
      [] rec = "Vitamin B12 supplementation recommended" -> {7}
      [] rec = "Follow-up kidney function tests recommended" -> {8}
      [] rec = "Follow-up liver function tests recommended" -> {9}
      [] rec = "Consider thyroid profile (T3, T4)" -> {10}
      [] rec = "Routine follow-up as per age and gender appropriate guidelines" -> {11}

RisksInBlockOrder(risks) ==
    \A i, j \in DOMAIN risks : i < j => RiskBlock(risks[i]) < RiskBlock(risks[j])

\* the recommendations can be given to blocks that never go back, from block least on
RECURSIVE RecommendationsInBlockOrder(_, _)
RecommendationsInBlockOrder(recs, least) ==
    IF recs = <<>> THEN TRUE
    ELSE LET later == {b \in RecommendationBlocks(Head(recs)) : b >= least} IN
         /\ later # {}
         /\ RecommendationsInBlockOrder(Tail(recs), CHOOSE b \in later : \A c \in later : b <= c)

\* C11: during create_summary risk_factors and recommendations only grow at
\* their end, and when it returns their entries are in the fixed order of the
\* blocks (anemia, leukocyte, dyslipidemia, diabetes, prostate, vitamin D,
\* vitamin B12, kidney, liver, thyroid), whatever the order of the text.
C11_AppendOnlyInBlockOrder ==
    [][/\ (Summarized /\ Summarized') =>
              /\ IsPrefix(summary.risk_factors, summary'.risk_factors)
              /\ IsPrefix(summary.recommendations, summary'.recommendations)
       /\ pc' = "done" =>
              /\ RisksInBlockOrder(summary'.risk_factors)
              /\ RecommendationsInBlockOrder(summary'.recommendations, 1)]_vars

\* the thyroid line comes first in the text and its risk factor last in the list
C11_Witness ==
    /\ pc = "done"
    /\ Len(text) = 2
    /\ text[1].id = "TSH"
    /\ text[2].id = "HBA1C"
    /\ summary.risk_factors = <<"Diabetes mellitus", "Low TSH - possible hyperthyroidism">>
    /\ Len(summary.recommendations) = 3

\* a rule block fired when it appended something to the lists it was given
AnyBlockFired(categorized, info) ==
    LET fresh == NewSummary(categorized, info) IN
    \/ AnemiaBlock(fresh, categorized) # fresh
    \/ LeukocyteBlock(fresh, categorized) # fresh
    \/ DyslipidemiaBlock(fresh, categorized) # fresh
    \/ DiabetesBlock(fresh, categorized) # fresh
    \/ ProstateBlock(fresh, categorized, info) # fresh
    \/ VitaminDBlock(fresh, categorized) # fresh
    \/ VitaminB12Block(fresh, categorized) # fresh
    \/ KidneyBlock(fresh, categorized) # fresh
    \/ LiverBlock(fresh, categorized) # fresh
    \/ ThyroidBlock(fresh, categorized) # fresh

InList(x, list) == \E i \in DOMAIN list : list[i] = x

\* C12: the sentinel pair is appended exactly when none of the ten blocks
\* fired; the two lists are then the sentinel risk factor alone and the routine
\* follow-up alone, and when a block fired neither sentinel string is in its
\* list.
C12_SentinelIffNoBlockFired ==
    pc = "done" =>
        IF AnyBlockFired(categorized_results, patient_info)
        THEN /\ ~InList("No significant risk factors identified", summary.risk_factors)
             /\ ~InList("Routine follow-up as per age and gender appropriate guidelines",
                        summary.recommendations)
        ELSE /\ summary.risk_factors = <<"No significant risk factors identified">>
             /\ summary.recommendations = <<"Routine follow-up as per age and gender appropriate guidelines">>

\* no block fires on an abnormal observation that no rule looks at
C12_Witness ==
    /\ pc = "done"
    /\ summary.abnormal_count = 1
    /\ ~AnyBlockFired(categorized_results, patient_info)
    /\ summary.risk_factors = <<"No significant risk factors identified">>

NoAbnormalOrBorderline(categorized) ==
    \A k \in DOMAIN categorized :
        ~In("abnormal", categorized[k].status) /\ ~In("borderline", categorized[k].status)

\* C13: when no classified entry has a status containing "abnormal" or
\* "borderline", create_summary returns abnormal_count 0 and the sentinel as the
\* only risk factor, whatever patient_info is.
C13_NothingAbnormalGivesSentinel ==
    (pc = "done" /\ NoAbnormalOrBorderline(categorized_results)) =>
        /\ summary.abnormal_count = 0
        /\ summary.risk_factors = <<"No significant risk factors identified">>

\* a creatinine that could not be compared with its bounds fires nothing
C13_Witness ==
    /\ pc = "done"
    /\ NoAbnormalOrBorderline(categorized_results)
    /\ Has(categorized_results, "CREATININE", "not_numeric")
    /\ summary.abnormal_count = 0
    /\ summary.risk_factors = <<"No significant risk factors identified">>

\* C14: once extract_test_results has run, zero matches lead to the "no
\* results" error with no summary built, and one or more matches lead to
\* classification and summary generation, which never stop on an exception.
C14_SummaryIffMatched ==
    pc \notin {"main", "override", "extract"} =>
        IF DOMAIN test_results = {}
        THEN pc = "no_results" /\ summary = EmptyDict
        ELSE pc \notin {"no_results", "raised"}

\* the invocation that ended gave back what every earlier invocation with the
\* same text and sex gave back
Repeatable ==
    Ended => \A e \in earlier :
                 (e.text = text /\ e.sex = Get(patient_info, "sex", None)) => e = Outcome

\* C15: whatever was run before, running the pipeline again on the same text
\* and sex gives the same classified map and the same four summary entries (or
\* ends the same way), categorize_results leaves test_results and patient_info
\* as they were, and create_summary leaves categorized_results and
\* patient_info as they were.
C15_RepeatableAndInputsKept ==
    [][/\ Repeatable'
       /\ pc = "categorize" => (test_results' = test_results /\ patient_info' = patient_info)
       /\ (Classified /\ pc # "done") =>
              (categorized_results' = categorized_results /\ patient_info' = patient_info)]_vars

\* the third invocation repeats the first after a second one on another text
C15_Witness ==
    /\ pc = "done"
    /\ runs = 2
    /\ \E e \in earlier : e.text = text /\ e.sex = Get(patient_info, "sex", None) /\ e = Outcome
    /\ \E e \in earlier : e.text # text /\ e.end = "done"
    /\ summary.risk_factors = <<"Diabetes mellitus">>

\* the places of the text where the pattern of id occurs
Occurrences(id) == {i \in DOMAIN text : text[i].id = id}

IsFirstOccurrence(id, i) == i \in Occurrences(id) /\ \A j \in Occurrences(id) : i <= j

\* what extract_test_results stores for a captured group
StoredValue(group) == IF FloatParses(group) THEN Float(FloatValue(group)) ELSE Str(Strip(group))

\* C16: each identifier whose pattern occurs in the text gets exactly the value
\* of its first occurrence, whatever the later occurrences hold, and an
\* identifier whose pattern occurs nowhere is absent from the result; this
\* holds for extract_patient_info (seen before the sidebar values are added)
\* and for extract_test_results, and neither ends with an error.
C16_FirstOccurrenceWins ==
    /\ pc = "override" =>
          \A key \in DOMAIN PATTERNS :
              /\ key \in DOMAIN patient_info <=> Occurrences(key) # {}
              /\ \A i \in DOMAIN text :
                    IsFirstOccurrence(key, i) => patient_info[key] = Strip(text[i].cap)
    /\ pc \in {"categorize", "no_results"} =>
          /\ exception = ""
          /\ \A test_name \in DOMAIN TEST_PATTERNS :
                /\ test_name \in DOMAIN test_results <=> Occurrences(test_name) # {}
                /\ \A i \in DOMAIN text :
                      IsFirstOccurrence(test_name, i) =>
                          test_results[test_name] = StoredValue(text[i].cap)

\* a test printed twice with two different values
C16_Witness ==
    /\ pc = "categorize"
    /\ Len(text) = 2
    /\ text[1].id = "HAEMOGLOBIN" /\ text[2].id = "HAEMOGLOBIN"
    /\ test_results["HAEMOGLOBIN"] = StoredValue(text[1].cap)
    /\ test_results["HAEMOGLOBIN"] # StoredValue(text[2].cap)

\* C17: after the anemia block, which is the first to append, the lists hold
\* exactly one risk factor chosen by MCV when HAEMOGLOBIN is abnormal_low
\* (microcytic with its recommendation for MCV abnormal_low, macrocytic with
\* its recommendation for MCV abnormal_high, normocytic without recommendation
\* in every other case) and nothing when HAEMOGLOBIN is not abnormal_low.
C17_AnemiaByMCV ==
    pc = "leukocyte" =>
        IF Has(categorized_results, "HAEMOGLOBIN", "abnormal_low")
        THEN IF Has(categorized_results, "MCV", "abnormal_low")
             THEN /\ summary.risk_factors = <<"Microcytic anemia possible - consider iron deficiency">>
                  /\ summary.recommendations = <<"Further investigation for iron deficiency anemia recommended">>
             ELSE IF Has(categorized_results, "MCV", "abnormal_high")
             THEN /\ summary.risk_factors = <<"Macrocytic anemia possible - consider B12/folate deficiency">>
                  /\ summary.recommendations = <<"Further investigation for vitamin B12 or folate deficiency recommended">>
             ELSE /\ summary.risk_factors = <<"Normocytic anemia possible">>
                  /\ summary.recommendations = <<>>
        ELSE /\ summary.risk_factors = <<>>
             /\ summary.recommendations = <<>>

\* C18: the dyslipidemia block appends its one risk factor and the lifestyle
\* recommendation exactly when CHOLESTEROL_TOTAL is abnormal_high, LDL is
\* abnormal_high or very_abnormal_high, HDL is abnormal_low or TRIGLYCERIDES is
\* abnormal_high, once however many of them hold, it appends the cardiologist
\* recommendation after it exactly when LDL is very_abnormal_high, and it
\* appends nothing otherwise (a borderline LDL alone included).
C18_DyslipidemiaBlock ==
    [][pc = "dyslipidemia" =>
          LET fires == \/ Has(categorized_results, "CHOLESTEROL_TOTAL", "abnormal_high")
                       \/ Has(categorized_results, "LDL", "abnormal_high")
                       \/ Has(categorized_results, "LDL", "very_abnormal_high")
                       \/ Has(categorized_results, "HDL", "abnormal_low")
                       \/ Has(categorized_results, "TRIGLYCERIDES", "abnormal_high")
              worst == Has(categorized_results, "LDL", "very_abnormal_high")
          IN /\ summary'.risk_factors = summary.risk_factors \o
                    (IF fires THEN <<"Dyslipidemia - increased cardiovascular risk">> ELSE <<>>)
             /\ summary'.recommendations = summary.recommendations \o
                    (IF fires
                     THEN <<"Lifestyle modifications recommended; consider dietary changes and exercise">>
                     ELSE <<>>) \o
                    (IF worst
                     THEN <<"Consider consultation with cardiologist for lipid management">>
                     ELSE <<>>)]_vars

\* two of the four conditions hold, LDL in its worst tier
C18_Witness ==
    /\ pc = "diabetes"
    /\ Has(categorized_results, "LDL", "very_abnormal_high")
    /\ Has(categorized_results, "HDL", "abnormal_low")
    /\ summary.risk_factors = <<"Dyslipidemia - increased cardiovascular risk">>
    /\ summary.recommendations =
           <<"Lifestyle modifications recommended; consider dietary changes and exercise",
             "Consider consultation with cardiologist for lipid management">>

\* C19: the diabetes block appends 'Prediabetes' with the lifestyle and
\* follow-up recommendations exactly when HBA1C is borderline, 'Diabetes
\* mellitus' with the endocrinologist and glucose monitoring recommendations
\* exactly when HBA1C is abnormal_high, nothing otherwise; the returned
\* risk_factors never hold both, and an HBA1C of 7.0 gives 'Diabetes mellitus'
\* and no 'Prediabetes'.
C19_DiabetesBlock ==
    [][/\ pc = "diabetes" =>
              LET status == IF "HBA1C" \in DOMAIN categorized_results
                            THEN categorized_results["HBA1C"].status ELSE "absent"
              IN /\ summary'.risk_factors = summary.risk_factors \o
                        (CASE status = "borderline" -> <<"Prediabetes">>
                           [] status = "abnormal_high" -> <<"Diabetes mellitus">>
                           [] OTHER -> <<>>)
                 /\ summary'.recommendations = summary.recommendations \o
                        (CASE status = "borderline" ->
                                  <<"Lifestyle modifications recommended; consider dietary changes and exercise",
                                    "Follow-up HbA1c test in 3-6 months">>
                           [] status = "abnormal_high" ->
                                  <<"Consultation with endocrinologist recommended",
                                    "Regular blood glucose monitoring">>
                           [] OTHER -> <<>>)
       /\ pc' = "done" =>
              /\ ~(/\ InList("Prediabetes", summary'.risk_factors)
                   /\ InList("Diabetes mellitus", summary'.risk_factors))
              /\ ("HBA1C" \in DOMAIN test_results' /\ test_results'["HBA1C"] = Float(700)) =>
                     /\ InList("Diabetes mellitus", summary'.risk_factors)
                     /\ ~InList("Prediabetes", summary'.risk_factors)]_vars

\* HBA1C = 7.0
C19_Witness ==
    /\ pc = "done"
    /\ "HBA1C" \in DOMAIN test_results /\ test_results["HBA1C"] = Float(700)
    /\ Has(categorized_results, "HBA1C", "abnormal_high")
    /\ summary.risk_factors = <<"Diabetes mellitus">>
    /\ summary.recommendations = <<"Consultation with endocrinologist recommended",
                                   "Regular blood glucose monitoring">>

Restrict(d, keys) == [k \in DOMAIN d \cap keys |-> d[k]]

\* what the diabetes block appends when it is given the HBA1C entry alone and
\* two empty lists
DiabetesAlone(categorized) ==
    DiabetesBlock([risk_factors |-> <<>>, recommendations |-> <<>>], Restrict(categorized, {"HBA1C"}))

\* C20: what the diabetes block appends is what it appends for the HBA1C entry
\* alone, so two maps that agree on HBA1C and differ in the lipid observations
\* get the same diabetes entries, whether or not the dyslipidemia block fired;
\* the entries of the dyslipidemia block are in the lists before the diabetes
\* block appends its own at the end.
C20_DiabetesIndependentOfLipids ==
    [][pc = "diabetes" =>
          /\ summary'.risk_factors =
                 summary.risk_factors \o DiabetesAlone(categorized_results).risk_factors
          /\ summary'.recommendations =
                 summary.recommendations \o DiabetesAlone(categorized_results).recommendations
          /\ has_lipid_concerns(categorized_results) =>
                 /\ summary.risk_factors # <<>>
                 /\ summary.risk_factors[Len(summary.risk_factors)] =
                        "Dyslipidemia - increased cardiovascular risk"]_vars

\* both blocks fired and both appended the lifestyle recommendation
C20_Witness ==
    /\ pc = "prostate"
    /\ Has(categorized_results, "HDL", "abnormal_low")
    /\ Has(categorized_results, "HBA1C", "borderline")
    /\ summary.risk_factors = <<"Dyslipidemia - increased cardiovascular risk", "Prediabetes">>
    /\ summary.recommendations =
           <<"Lifestyle modifications recommended; consider dietary changes and exercise",
             "Lifestyle modifications recommended; consider dietary changes and exercise",
             "Follow-up HbA1c test in 3-6 months">>

\* C21: the prostate risk factor and the urologist recommendation are in the
\* returned lists exactly when the sex classification used (male when
\* patient_info has no sex) is male and PSA is abnormal_high.
C21_ProstateUsesClassificationSex ==
    pc = "done" =>
        LET expected == /\ ClassificationSex(patient_info) = "male"
                        /\ Has(categorized_results, "PSA", "abnormal_high")
        IN /\ InList("Elevated PSA - prostate abnormality possible", summary.risk_factors) <=> expected
           /\ InList("Urologist consultation recommended", summary.recommendations) <=> expected

\* the tests whose reference rule has bounds by sex
SexBoundedTests == {test \in DOMAIN REFERENCE_RANGES : "male" \in DOMAIN REFERENCE_RANGES[test]}

\* C22: once main has applied the override, the sex that classification looks
\* bounds up with is 'male' or 'female'; it is the override when the text has
\* no Sex field; and every numeric observation of a sex-bounded test is
\* classified normal, abnormal_low or abnormal_high.
C22_SexIsMaleOrFemale ==
    /\ pc \notin {"main", "override"} =>
          /\ ClassificationSex(patient_info) \in {"male", "female"}
          /\ Occurrences("sex") = {} => patient_info["sex"] \in SexOptions
    /\ Classified =>
          \A test \in DOMAIN test_results \cap SexBoundedTests :
              IsNumber(test_results[test]) =>
                  categorized_results[test].status \in {"normal", "abnormal_low", "abnormal_high"}

NoRepeat(list) == \A i, j \in DOMAIN list : list[i] = list[j] => i = j

\* C23: the returned risk_factors is never empty and holds no string twice,
\* and the returned recommendations is empty exactly when risk_factors is the
\* one entry 'Normocytic anemia possible'.
C23_ListsOfTheSummary ==
    pc = "done" =>
        /\ summary.risk_factors # <<>>
        /\ NoRepeat(summary.risk_factors)
        /\ summary.recommendations = <<>> <=>
               summary.risk_factors = <<"Normocytic anemia possible">>

\* a normocytic anemia and nothing else
C23_Witness ==
    /\ pc = "done"
    /\ Has(categorized_results, "HAEMOGLOBIN", "abnormal_low")
    /\ Has(categorized_results, "MCV", "normal")
    /\ summary.risk_factors = <<"Normocytic anemia possible">>
    /\ summary.recommendations = <<>>

====
